---- MODULE Spec2Model ----
(***************************************************************************)
(* Model of BinarySampling.ipynb: the exact counter choose, the mass       *)
(* function, the forward and reverse hypergeometric probabilities, the     *)
(* point estimate B_guess and the confidence interval search theta.        *)
(*                                                                         *)
(* A Python call either returns a value or raises an exception.  An        *)
(* outcome of an integer-valued function is a record [exc, val]; an        *)
(* outcome of a probability function is a record [exc, num, den] where     *)
(* the Python float returned is the correctly rounded quotient num / den   *)
(* of the two exact integers (int / int in Python 3).                      *)
(***************************************************************************)
EXTENDS Integers, Sequences, FiniteSets, TLC

\* ------------------------------------------------------------------ bounds
\* Largest jar size of a valid call.
MaxN == 5
\* How far outside its domain an argument of an invalid call may lie.
MaxOut == 1
\* Largest jar size of a call of theta or B_guess outside the domain.
MaxBadN == 2
\* Largest argument of a direct call of choose.
MaxChoose == 7
\* Cap of the half-width counter of the search loop.
MaxDelta == 14
\* Largest jar size of a direct call of B_guess.
MaxGuessN == 15
\* Largest jar size of a call of theta that runs beside another.
MaxConcN == 3

\* ---------------------------------------------------------------- outcomes
Ret(v) == [exc |-> "none", val |-> v]
Raise(e) == [exc |-> e, val |-> 0]
Raised(r) == r.exc # "none"
RetP(n, d) == [exc |-> "none", num |-> n, den |-> d]
RaiseP(e) == [exc |-> e, num |-> 0, den |-> 1]

\* A Python local: the value of v is computed once and bound to the parameter
\* of F, as an assignment to a local variable does.  Apply(v, F) = F(v).
Apply(v, F(_)) == CHOOSE r \in {F(x) : x \in {v}} : TRUE
Apply2(v, w, F(_, _)) == CHOOSE r \in {F(x, y) : x \in {v}, y \in {w}} : TRUE

\* ------------------------------------------------------------ exact counter
RECURSIVE Fact(_)
Fact(n) == IF n <= 1 THEN 1 ELSE n * Fact(n - 1)

\* math.factorial: ValueError on a negative argument.
factorial(n) == IF n < 0 THEN Raise("ValueError") ELSE Ret(Fact(n))

\* The reference the notebook tests choose against: math.comb, by Pascal's rule.
RECURSIVE comb(_, _)
comb(n, k) ==
    IF k = 0 THEN 1
    ELSE IF n = 0 THEN 0
    ELSE comb(n - 1, k - 1) + comb(n - 1, k)

\* choose without its early return for n < k.
choose_without_early_return(n, k) ==
    LET fn  == factorial(n)
        fnk == factorial(n - k)
        fk  == factorial(k)
    IN  IF Raised(fn) THEN fn
        ELSE IF Raised(fnk) THEN fnk
        ELSE IF Raised(fk) THEN fk
        ELSE Ret(fn.val \div (fnk.val * fk.val))

\* choose with the early return taken for n <= k.
choose_early_return_on_equal(n, k) ==
    IF n <= k
    THEN Ret(0)
    ELSE LET fn  == factorial(n)
             fnk == factorial(n - k)
             fk  == factorial(k)
         IN  IF Raised(fn) THEN fn
             ELSE IF Raised(fnk) THEN fnk
             ELSE IF Raised(fk) THEN fk
             ELSE Ret(fn.val \div (fnk.val * fk.val))

choose(n, k) ==
    IF n < k
    THEN Ret(0)
    ELSE LET fn  == factorial(n)
             fnk == factorial(n - k)
             fk  == factorial(k)
         IN  IF Raised(fn) THEN fn
             ELSE IF Raised(fnk) THEN fnk
             ELSE IF Raised(fk) THEN fk
             ELSE Ret(fn.val \div (fnk.val * fk.val))

\* ------------------------------------------------------------ mass function
\* phi: both factors are evaluated, left to right, before the product.
ways_to_get_specific_sample_from_specific_jar(jar_size, jar_blues, sample_size, sample_blues) ==
    Apply2(choose(jar_blues, sample_blues),
           choose(jar_size - jar_blues, sample_size - sample_blues),
           LAMBDA x, y : IF Raised(x) THEN x
                         ELSE IF Raised(y) THEN y
                         ELSE Ret(x.val * y.val))

\* tally += t: the first exception raised, in iteration order, ends the loop.
Accumulate(tally, t) ==
    Apply2(tally, t,
           LAMBDA x, y : IF Raised(x) THEN x
                         ELSE IF Raised(y) THEN y
                         ELSE Ret(x.val + y.val))

\* ------------------------------------------------------ forward distribution
\* The tally after the iterations b = 0 .. last of range(sample_size + 1).
RECURSIVE TallyOverSamples(_, _, _, _)
TallyOverSamples(jar_size, jar_blues, sample_size, last) ==
    IF last < 0
    THEN Ret(0)
    ELSE Accumulate(TallyOverSamples(jar_size, jar_blues, sample_size, last - 1),
                    ways_to_get_specific_sample_from_specific_jar(jar_size, jar_blues, sample_size, last))

\* The loop over range(sample_size) in place of range(sample_size + 1).
all_samples_without_last(jar_size, jar_blues, sample_size) ==
    TallyOverSamples(jar_size, jar_blues, sample_size, sample_size - 1)

ways_to_get_all_samples_of_given_size_from_specific_jar(jar_size, jar_blues, sample_size) ==
    TallyOverSamples(jar_size, jar_blues, sample_size, sample_size)

\* numerator / denominator: left operand, right operand, then the division.
TrueDiv(a, c) ==
    Apply2(a, c,
           LAMBDA x, y : IF Raised(x) THEN RaiseP(x.exc)
                         ELSE IF Raised(y) THEN RaiseP(y.exc)
                         ELSE IF y.val = 0 THEN RaiseP("ZeroDivisionError")
                         ELSE RetP(x.val, y.val))

probability_of_getting_specific_sample_from_specific_jar(jar_size, jar_blues, sample_size, sample_blues) ==
    TrueDiv(ways_to_get_specific_sample_from_specific_jar(jar_size, jar_blues, sample_size, sample_blues),
            ways_to_get_all_samples_of_given_size_from_specific_jar(jar_size, jar_blues, sample_size))

\* ------------------------------------------------------ reverse distribution
\* The tally after the iterations B = 0 .. last of range(jar_size + 1).
RECURSIVE TallyOverJars(_, _, _, _)
TallyOverJars(jar_size, sample_size, sample_blues, last) ==
    IF last < 0
    THEN Ret(0)
    ELSE Accumulate(TallyOverJars(jar_size, sample_size, sample_blues, last - 1),
                    ways_to_get_specific_sample_from_specific_jar(jar_size, last, sample_size, sample_blues))

\* The loop over range(jar_size) in place of range(jar_size + 1).
all_jars_without_last(jar_size, sample_size, sample_blues) ==
    TallyOverJars(jar_size, sample_size, sample_blues, jar_size - 1)

ways_to_get_specific_sample_from_all_jars_of_given_size(jar_size, sample_size, sample_blues) ==
    TallyOverJars(jar_size, sample_size, sample_blues, jar_size)

probability_that_specific_sample_came_from_specific_jar(jar_size, jar_blues, sample_size, sample_blues) ==
    TrueDiv(ways_to_get_specific_sample_from_specific_jar(jar_size, jar_blues, sample_size, sample_blues),
            ways_to_get_specific_sample_from_all_jars_of_given_size(jar_size, sample_size, sample_blues))

\* The tally after the iterations B = lower .. last of range(lower, upper + 1).
RECURSIVE TallyOverInterval(_, _, _, _, _)
TallyOverInterval(jar_size, lower, last, sample_size, sample_blues) ==
    IF last < lower
    THEN Ret(0)
    ELSE Accumulate(TallyOverInterval(jar_size, lower, last - 1, sample_size, sample_blues),
                    ways_to_get_specific_sample_from_specific_jar(jar_size, last, sample_size, sample_blues))

\* The loop over range(lower, upper) in place of range(lower, upper + 1).
interval_without_upper(jar_size, lower, upper, sample_size, sample_blues) ==
    TallyOverInterval(jar_size, lower, upper - 1, sample_size, sample_blues)

\* tally = ... in place of tally += ...: the last term alone.
interval_last_term_only(jar_size, lower, upper, sample_size, sample_blues) ==
    IF upper < lower
    THEN Ret(0)
    ELSE ways_to_get_specific_sample_from_specific_jar(jar_size, upper, sample_size, sample_blues)

ways_to_get_specific_sample_from_interval_of_jars(jar_size, lower, upper, sample_size, sample_blues) ==
    TallyOverInterval(jar_size, lower, upper, sample_size, sample_blues)

\* The denominator summed over range(upper + 1) in place of range(jar_size + 1).
interval_probability_over_jars_up_to_upper(jar_size, lower, upper, sample_size, sample_blues) ==
    TrueDiv(ways_to_get_specific_sample_from_interval_of_jars(jar_size, lower, upper, sample_size, sample_blues),
            TallyOverJars(jar_size, sample_size, sample_blues, upper))

probability_that_specific_sample_came_from_interval_of_jars(jar_size, lower, upper, sample_size, sample_blues) ==
    TrueDiv(ways_to_get_specific_sample_from_interval_of_jars(jar_size, lower, upper, sample_size, sample_blues),
            ways_to_get_specific_sample_from_all_jars_of_given_size(jar_size, sample_size, sample_blues))

\* ------------------------------------------------------------ point estimate
(***************************************************************************)
(* B_guess computes int(sample_blues * (jar_size / sample_size)) in IEEE   *)
(* double precision: the quotient of the two integers is rounded to the    *)
(* nearest double (ties to even), the product of that double with          *)
(* sample_blues is rounded again, and int() truncates toward zero.  A      *)
(* positive double is a record [m, e]: m is its 53-bit significand, the    *)
(* leading bit m[0] = 1 followed by the limbs m[1] .. m[Limbs] of LimbBits *)
(* bits each, most significant first, and its value is                     *)
(* (m[0] * 2^52 + m[1] * 2^39 + m[2] * 2^26 + m[3] * 2^13 + m[4])          *)
(* * 2^(e - 52).                                                           *)
(***************************************************************************)
LimbBits == 13
Limbs == 4

Abs(x) == IF x < 0 THEN -x ELSE x
Sign(x) == IF x < 0 THEN -1 ELSE IF x > 0 THEN 1 ELSE 0

RECURSIVE Pow2(_)
Pow2(i) == IF i = 0 THEN 1 ELSE 2 * Pow2(i - 1)

LimbBase == Pow2(LimbBits)

\* For a >= c > 0: the largest e with c * 2^e <= a.
RECURSIVE ExpUp(_, _)
ExpUp(a, c) == IF 2 * c <= a THEN 1 + ExpUp(a, 2 * c) ELSE 0

\* For 0 < a: the least t with a * 2^t >= c.
RECURSIVE ExpDown(_, _)
ExpDown(a, c) == IF a < c THEN 1 + ExpDown(2 * a, c) ELSE 0

\* The number of binary digits of n > 0.
RECURSIVE BitLength(_)
BitLength(n) == IF n <= 1 THEN 1 ELSE 1 + BitLength(n \div 2)

\* Long division of r by d (0 <= r < d): the remainder after i limbs of the
\* quotient; limb i of the quotient is (remainder after i - 1) * LimbBase \div d.
RECURSIVE DivRem(_, _, _)
DivRem(r, d, i) == IF i = 0 THEN r ELSE (DivRem(r, d, i - 1) * LimbBase) % d

\* The carry out of limb i when 1 is added to the last limb.
RECURSIVE IncCarry(_, _)
IncCarry(m, i) ==
    IF i > Limbs THEN 1 ELSE (m[i] + IncCarry(m, i + 1)) \div LimbBase

\* The next double above x.
RoundUp(x) ==
    IF IncCarry(x.m, 1) = 1
    THEN [m |-> [i \in 0..Limbs |-> IF i = 0 THEN 1 ELSE 0], e |-> x.e + 1]
    ELSE [m |-> [i \in 0..Limbs |->
                    IF i = 0 THEN 1 ELSE (x.m[i] + IncCarry(x.m, i + 1)) % LimbBase],
          e |-> x.e]

\* x, or the next double above it when the part rounded off, rem out of
\* whole, is above one half or is one half and the last bit of x is 1.
RoundNearestEven(x, rem, whole) ==
    Apply(x, LAMBDA v : IF 2 * rem > whole \/ (2 * rem = whole /\ v.m[Limbs] % 2 = 1)
                        THEN RoundUp(v)
                        ELSE v)

\* float(a) / float(c) for integers a, c > 0, rounded to nearest, ties to even.
FloatDiv(a, c) ==
    LET e    == IF a >= c THEN ExpUp(a, c) ELSE -ExpDown(a, c)
        n    == IF e < 0 THEN a * Pow2(-e) ELSE a
        d    == IF e > 0 THEN c * Pow2(e) ELSE c
        r    == n - d
        m    == [i \in 0..Limbs |->
                    IF i = 0 THEN 1 ELSE (DivRem(r, d, i - 1) * LimbBase) \div d]
    IN  RoundNearestEven([m |-> m, e |-> e], DivRem(r, d, Limbs), d)

\* Multiplying the significand by the integer k: the carry out of limb i.
RECURSIVE MulCarry(_, _, _)
MulCarry(m, k, i) ==
    IF i > Limbs THEN 0 ELSE (m[i] * k + MulCarry(m, k, i + 1)) \div LimbBase

\* float(k) * x for an integer 0 < k < LimbBase, rounded to nearest, ties to
\* even: the exact product has the limbs P below a leading part top; it is
\* shifted right by sh bits to 53 bits and the bits shifted out decide the
\* rounding.
FloatMulExact(k, x, P, top) ==
    LET sh    == BitLength(top) - 1
        above == [i \in 1..Limbs |-> IF i = 1 THEN top ELSE P[i - 1]]
        m     == [i \in 0..Limbs |->
                     IF i = 0 THEN 1
                     ELSE (above[i] % Pow2(sh)) * Pow2(LimbBits - sh) + P[i] \div Pow2(sh)]
    IN  RoundNearestEven([m |-> m, e |-> x.e + sh], P[Limbs] % Pow2(sh), Pow2(sh))

FloatMul(k, x) ==
    Apply(x, LAMBDA v :
        Apply2([i \in 1..Limbs |-> (v.m[i] * k + MulCarry(v.m, k, i + 1)) % LimbBase],
               k + MulCarry(v.m, k, 1),
               LAMBDA P, top : FloatMulExact(k, v, P, top)))

\* The integer part of limb i of a significand scaled by 2^(e - 52).
LimbIntPart(limb, i, e) ==
    IF e >= LimbBits * i THEN limb * Pow2(e - LimbBits * i)
    ELSE IF e > LimbBits * (i - 1) THEN limb \div Pow2(LimbBits * i - e)
    ELSE 0

RECURSIVE SumIntParts(_, _)
SumIntParts(x, i) ==
    IF i > Limbs THEN 0 ELSE LimbIntPart(x.m[i], i, x.e) + SumIntParts(x, i + 1)

\* int(x) for a positive double: the integer part.
FloatToInt(x) == Apply(x, LAMBDA v : IF v.e < 0 THEN 0 ELSE SumIntParts(v, 0))

B_guess(jar_size, sample_size, sample_blues) ==
    IF sample_size = 0
    THEN Raise("ZeroDivisionError")
    ELSE IF jar_size = 0 \/ sample_blues = 0
    THEN Ret(0)
    ELSE Ret(Sign(jar_size) * Sign(sample_size) * Sign(sample_blues)
             * FloatToInt(FloatMul(Abs(sample_blues), FloatDiv(Abs(jar_size), Abs(sample_size)))))

\* ------------------------------------------------- confidence interval search
(***************************************************************************)
(* A confidence level is a decimal literal cn / cd, held as <<cn, cd>>.    *)
(* The loop test p < confidence compares two doubles: p, the rounded       *)
(* quotient of two counts below 2^31, and the double nearest cn / cd.      *)
(* Two distinct fractions with denominators this small differ by far more  *)
(* than one unit in the last place, and rounding is monotone, so the       *)
(* comparison of the doubles is the comparison of the exact fractions.     *)
(***************************************************************************)
LessThan(p, confidence) == p.num * confidence[2] < confidence[1] * p.den

\* The search started one half-width lower, at the interval Bg .. Bg.
theta_first_delta_one_lower == 1 - 1

\* Line 638: the first half-width evaluated.
theta_first_delta == 1

\* delta += 2 in place of delta += 1.
theta_next_delta_by_two(delta) == delta + 2

\* The loop body without its increment.
theta_next_delta_unchanged(delta) == delta

\* Line 642: delta += 1.
theta_next_delta(delta) == delta + 1

\* Lines 639 and 643: p for the interval Bg - delta .. Bg + delta.
theta_p(jar_size, sample_size, sample_blues, Bg, delta) ==
    probability_that_specific_sample_came_from_interval_of_jars(
        jar_size, Bg - delta, Bg + delta, sample_size, sample_blues)

\* ------------------------------------------------------------------- inputs
\* Triples (N, s, b) of the data model: 0 <= b <= s <= N.
ValidTriples ==
    {t \in (0..MaxN) \X (0..MaxN) \X (0..MaxN) : t[3] <= t[2] /\ t[2] <= t[1]}

\* Triples in and up to MaxOut outside the data model.
NearTriples ==
    {t \in ((-MaxOut)..MaxBadN) \X ((-MaxOut)..(MaxBadN + MaxOut))
           \X ((-MaxOut)..(MaxBadN + 2 * MaxOut)) :
        t[2] <= t[1] + MaxOut /\ t[3] <= t[2] + MaxOut}

Triples == ValidTriples \cup NearTriples

\* Triples of a direct call of B_guess: 1 <= s <= N, 0 <= b <= s.
GuessTriples ==
    {t \in (1..MaxGuessN) \X (1..MaxGuessN) \X (0..MaxGuessN) :
        t[3] <= t[2] /\ t[2] <= t[1]}

\* Candidate jar compositions and interval bounds for a jar of size n: 0 .. n
\* and up to MaxOut outside it.
Around(n) == (-MaxOut)..(n + MaxOut)

Confidences == {<<1, 2>>, <<3, 4>>, <<9, 10>>, <<19, 20>>, <<99, 100>>}

\* The confidence field of a call that takes none.
NoConfidence == <<0, 1>>

\* A triple with a jar composition B of Around(N), and with interval bounds
\* L, U of Around(N).
TriplesWithJar ==
    {x \in Triples \X Around(MaxN) : x[2] \in Around(x[1][1])}

TriplesWithInterval ==
    {x \in Triples \X Around(MaxN) \X Around(MaxN) :
        x[2] \in Around(x[1][1]) /\ x[3] \in Around(x[1][1])}

\* The calls: choose(n, k); (N, B, s, b) for the count of ways and the forward
\* and reverse probability; (N, B, s) and (N, s, b) for the denominators;
\* (N, L, U, s, b) for the interval sum and probability; (N, s, b) for B_guess
\* and, with a confidence, for theta.
Calls ==
    {[fn |-> "choose", a |-> <<n, k>>, conf |-> NoConfidence] :
        n \in (-MaxOut)..MaxChoose, k \in (-MaxOut)..MaxChoose}
    \cup {[fn |-> f, a |-> <<x[1][1], x[2], x[1][2], x[1][3]>>, conf |-> NoConfidence] :
        f \in {"ways", "forward", "reverse"}, x \in TriplesWithJar}
    \cup {[fn |-> "forward_denominator", a |-> <<x[1][1], x[2], x[1][2]>>, conf |-> NoConfidence] :
        x \in TriplesWithJar}
    \cup {[fn |-> f, a |-> t, conf |-> NoConfidence] :
        f \in {"reverse_denominator", "B_guess"}, t \in Triples}
    \cup {[fn |-> f, a |-> <<x[1][1], x[2], x[3], x[1][2], x[1][3]>>, conf |-> NoConfidence] :
        f \in {"interval_numerator", "interval"}, x \in TriplesWithInterval}
    \cup {[fn |-> "B_guess", a |-> t, conf |-> NoConfidence] : t \in GuessTriples}
    \cup {[fn |-> "theta", a |-> t, conf |-> c] :
        t \in Triples, c \in Confidences}

\* -------------------------------------------------------------------- state
VARIABLES
    call,    \* the function called, its integer arguments, its confidence
    pc,      \* "call": not yet run; "guessed", "loop": inside theta; "done"
    ret,     \* the outcome of the call once pc = "done"
    Bg,      \* theta's local Bg
    delta,   \* theta's local delta
    p,       \* theta's local p
    procs    \* the calls of theta that run concurrently, each with its locals

vars == <<call, pc, ret, Bg, delta, p, procs>>

NoRet == [exc |-> "pending", val |-> 0]
NoP == [exc |-> "pending", num |-> 0, den |-> 1]

\* The concurrent callers.
Procs == {1, 2}

NoCall == [fn |-> "none", a |-> <<0, 0, 0>>, conf |-> NoConfidence]

\* The frame of a call of theta: its arguments, its position, its outcome,
\* theta's locals Bg, delta and p, and the locals B and tally of the call of
\* ways_to_get_specific_sample_from_interval_of_jars it is inside.
Frame(c, at) ==
    [call |-> c, pc |-> at, ret |-> NoRet, Bg |-> 0, delta |-> 0, p |-> NoP,
     B |-> 0, tally |-> Ret(0)]

NoProcs == [i \in Procs |-> Frame(NoCall, "idle")]

Init ==
    /\ call \in Calls
    /\ pc = "call"
    /\ ret = NoRet
    /\ Bg = 0
    /\ delta = 0
    /\ p = NoP
    /\ procs = NoProcs

\* A call of a function other than theta runs to its outcome in one step.
Return(outcome) ==
    /\ pc' = "done"
    /\ ret' = outcome
    /\ UNCHANGED <<call, Bg, delta, p, procs>>

CallChoose ==
    /\ pc = "call"
    /\ call.fn = "choose"
    /\ Return(choose(call.a[1], call.a[2]))

CallWays ==
    /\ pc = "call"
    /\ call.fn = "ways"
    /\ Return(ways_to_get_specific_sample_from_specific_jar(
                  call.a[1], call.a[2], call.a[3], call.a[4]))

CallForwardDenominator ==
    /\ pc = "call"
    /\ call.fn = "forward_denominator"
    /\ Return(ways_to_get_all_samples_of_given_size_from_specific_jar(
                  call.a[1], call.a[2], call.a[3]))

CallForward ==
    /\ pc = "call"
    /\ call.fn = "forward"
    /\ Return(probability_of_getting_specific_sample_from_specific_jar(
                  call.a[1], call.a[2], call.a[3], call.a[4]))

CallReverseDenominator ==
    /\ pc = "call"
    /\ call.fn = "reverse_denominator"
    /\ Return(ways_to_get_specific_sample_from_all_jars_of_given_size(
                  call.a[1], call.a[2], call.a[3]))

CallReverse ==
    /\ pc = "call"
    /\ call.fn = "reverse"
    /\ Return(probability_that_specific_sample_came_from_specific_jar(
                  call.a[1], call.a[2], call.a[3], call.a[4]))

CallIntervalNumerator ==
    /\ pc = "call"
    /\ call.fn = "interval_numerator"
    /\ Return(ways_to_get_specific_sample_from_interval_of_jars(
                  call.a[1], call.a[2], call.a[3], call.a[4], call.a[5]))

CallInterval ==
    /\ pc = "call"
    /\ call.fn = "interval"
    /\ Return(probability_that_specific_sample_came_from_interval_of_jars(
                  call.a[1], call.a[2], call.a[3], call.a[4], call.a[5]))

CallBGuess ==
    /\ pc = "call"
    /\ call.fn = "B_guess"
    /\ Return(B_guess(call.a[1], call.a[2], call.a[3]))

\* theta, line 636: Bg = B_guess(...); an exception it raises ends the call.
ThetaGuess ==
    /\ pc = "call"
    /\ call.fn = "theta"
    /\ LET g == B_guess(call.a[1], call.a[2], call.a[3])
       IN  /\ Bg' = g.val
           /\ pc' = IF Raised(g) THEN "done" ELSE "guessed"
           /\ ret' = IF Raised(g) THEN g ELSE ret
    /\ UNCHANGED <<call, delta, p, procs>>

\* Lines 638-639 with the exception of the probability swallowed: the search
\* goes on into the loop.
ThetaFirst_ignoring_error ==
    /\ pc = "guessed"
    /\ delta' = theta_first_delta
    /\ p' = theta_p(call.a[1], call.a[2], call.a[3], Bg, theta_first_delta)
    /\ pc' = "loop"
    /\ UNCHANGED <<call, Bg, ret, procs>>

\* theta, lines 638-639: delta = 1 and the first p; an exception raised by
\* the probability ends the call.
ThetaFirst ==
    /\ pc = "guessed"
    /\ LET p1 == theta_p(call.a[1], call.a[2], call.a[3], Bg, theta_first_delta)
       IN  /\ delta' = theta_first_delta
           /\ p' = p1
           /\ pc' = IF Raised(p1) THEN "done" ELSE "loop"
           /\ ret' = IF Raised(p1) THEN Raise(p1.exc) ELSE ret
    /\ UNCHANGED <<call, Bg, procs>>

\* theta, lines 641-643: one iteration of the while loop.
ThetaStep ==
    /\ pc = "loop"
    /\ LessThan(p, call.conf)
    /\ delta < MaxDelta
    /\ LET d  == theta_next_delta(delta)
           p1 == theta_p(call.a[1], call.a[2], call.a[3], Bg, d)
       IN  /\ delta' = d
           /\ p' = p1
           /\ pc' = IF Raised(p1) THEN "done" ELSE "loop"
           /\ ret' = IF Raised(p1) THEN Raise(p1.exc) ELSE ret
    /\ UNCHANGED <<call, Bg, procs>>

\* theta, lines 644-647: the loop test fails, Dg = delta, return (Bg, Dg).
ThetaReturn ==
    /\ pc = "loop"
    /\ ~LessThan(p, call.conf)
    /\ pc' = "done"
    /\ ret' = Ret(<<Bg, delta>>)
    /\ UNCHANGED <<call, Bg, delta, p, procs>>

Next ==
    \/ CallChoose
    \/ CallWays
    \/ CallForwardDenominator
    \/ CallForward
    \/ CallReverseDenominator
    \/ CallReverse
    \/ CallIntervalNumerator
    \/ CallInterval
    \/ CallBGuess
    \/ ThetaGuess
    \/ ThetaFirst
    \/ ThetaStep
    \/ ThetaReturn

Spec == Init /\ [][Next]_vars

\* The interpreter keeps running a call that has started.
FairSpec ==
    Spec /\ WF_vars(ThetaGuess) /\ WF_vars(ThetaFirst) /\ WF_vars(ThetaStep)
         /\ WF_vars(ThetaReturn)

\* ------------------------------------------------------- concurrent searches
\* The calls of theta that run beside each other.
ConcConfidences == {<<1, 2>>, <<19, 20>>}

ConcCalls ==
    {[fn |-> "theta", a |-> t, conf |-> c] :
        t \in {v \in ValidTriples : 1 <= v[2] /\ v[1] <= MaxConcN},
        c \in ConcConfidences}

ConcInit ==
    /\ call = NoCall
    /\ pc = "idle"
    /\ ret = NoRet
    /\ Bg = 0
    /\ delta = 0
    /\ p = NoP
    /\ procs \in [Procs -> {Frame(c, "call") : c \in ConcCalls}]

\* tally as a variable of the module: every call writes the same tally.
SetLocals_shared_tally(i, frame) ==
    [j \in Procs |-> IF j = i THEN frame ELSE [procs[j] EXCEPT !.tally = frame.tally]]

\* An assignment to locals of call i: the frames of the other calls stay.
SetLocals(i, frame) == [procs EXCEPT ![i] = frame]

\* The frame of a call ended by exception e.
Ended(f, e) == [f EXCEPT !.pc = "done", !.ret = Raise(e)]

\* Line 636: Bg = B_guess(...).
ProcGuess(i) ==
    /\ procs[i].pc = "call"
    /\ LET f == procs[i]
           g == B_guess(f.call.a[1], f.call.a[2], f.call.a[3])
       IN  procs' = SetLocals(i, IF Raised(g)
                                 THEN Ended(f, g.exc)
                                 ELSE [f EXCEPT !.pc = "guessed", !.Bg = g.val])
    /\ UNCHANGED <<call, pc, ret, Bg, delta, p>>

\* Lines 638-639, 507 and 478: delta = 1, then into the interval tally of the
\* first p: tally = 0, B at lower.
ProcFirst(i) ==
    /\ procs[i].pc = "guessed"
    /\ LET f == procs[i]
       IN  procs' = SetLocals(i, [f EXCEPT !.pc = "tally",
                                           !.delta = theta_first_delta,
                                           !.tally = Ret(0),
                                           !.B = f.Bg - theta_first_delta])
    /\ UNCHANGED <<call, pc, ret, Bg, delta, p>>

\* Lines 479-480: one iteration of for B in range(lower, upper + 1).
ProcTally(i) ==
    /\ procs[i].pc = "tally"
    /\ procs[i].B <= procs[i].Bg + procs[i].delta
    /\ LET f == procs[i]
           t == Accumulate(f.tally,
                           ways_to_get_specific_sample_from_specific_jar(
                               f.call.a[1], f.B, f.call.a[2], f.call.a[3]))
       IN  procs' = SetLocals(i, IF Raised(t)
                                 THEN Ended(f, t.exc)
                                 ELSE [f EXCEPT !.tally = t, !.B = f.B + 1])
    /\ UNCHANGED <<call, pc, ret, Bg, delta, p>>

\* Lines 481 and 507-512: the tally is returned, divided by the denominator
\* and assigned to p.
ProcDivide(i) ==
    /\ procs[i].pc = "tally"
    /\ procs[i].B > procs[i].Bg + procs[i].delta
    /\ LET f == procs[i]
           q == TrueDiv(f.tally,
                        ways_to_get_specific_sample_from_all_jars_of_given_size(
                            f.call.a[1], f.call.a[2], f.call.a[3]))
       IN  procs' = SetLocals(i, IF Raised(q)
                                 THEN Ended(f, q.exc)
                                 ELSE [f EXCEPT !.pc = "loop", !.p = q])
    /\ UNCHANGED <<call, pc, ret, Bg, delta, p>>

\* Lines 641-643, 507 and 478: the loop test holds, delta += 1, then into the
\* interval tally of the next p.
ProcStep(i) ==
    /\ procs[i].pc = "loop"
    /\ LessThan(procs[i].p, procs[i].call.conf)
    /\ procs[i].delta < MaxDelta
    /\ LET f == procs[i]
           d == theta_next_delta(f.delta)
       IN  procs' = SetLocals(i, [f EXCEPT !.pc = "tally",
                                           !.delta = d,
                                           !.tally = Ret(0),
                                           !.B = f.Bg - d])
    /\ UNCHANGED <<call, pc, ret, Bg, delta, p>>

\* Lines 644-647: the loop test fails, Dg = delta, return (Bg, Dg).
ProcReturn(i) ==
    /\ procs[i].pc = "loop"
    /\ ~LessThan(procs[i].p, procs[i].call.conf)
    /\ LET f == procs[i]
       IN  procs' = SetLocals(i, [f EXCEPT !.pc = "done",
                                           !.ret = Ret(<<f.Bg, f.delta>>)])
    /\ UNCHANGED <<call, pc, ret, Bg, delta, p>>

ConcNext ==
    \E i \in Procs :
        \/ ProcGuess(i)
        \/ ProcFirst(i)
        \/ ProcTally(i)
        \/ ProcDivide(i)
        \/ ProcStep(i)
        \/ ProcReturn(i)

\* The runs of the concurrent calls, their steps interleaved in any order.
ConcSpec == ConcInit /\ [][ConcNext]_vars

TypeOK ==
    /\ call \in Calls
    /\ pc \in {"call", "guessed", "loop", "done"}
    /\ delta \in 0..MaxDelta
    /\ pc = "loop" => call.fn = "theta" /\ ~Raised(p) /\ delta >= 1

\* ------------------------------------------------------------------- claims
ValidTriple(N, s, b) == 0 <= b /\ b <= s /\ s <= N
ValidJar(N, B) == 0 <= B /\ B <= N
ThetaValid(a) == a[1] >= 1 /\ a[2] >= 1 /\ ValidTriple(a[1], a[2], a[3])

Done(fn) == pc = "done" /\ call.fn = fn

\* p >= q for two probabilities that were returned.
AtLeast(x, y) == x.num * y.den >= y.num * x.den

\* C1: for every valid input theta returns (B*, D) with B* = B_guess(N, s, b),
\* D >= 1, the probability of [B* - D, B* + D] >= confidence, and the
\* probability of every narrower interval [B* - d, B* + d], 1 <= d < D, below
\* confidence: D is the first half-width, counting up from 1, that meets the
\* threshold.
C1_ThetaReturnsFirstSufficientHalfWidth ==
    (Done("theta") /\ ThetaValid(call.a)) =>
        LET N    == call.a[1]
            s    == call.a[2]
            b    == call.a[3]
            P(d) == probability_that_specific_sample_came_from_interval_of_jars(
                        N, ret.val[1] - d, ret.val[1] + d, s, b)
        IN  /\ ret.exc = "none"
            /\ Ret(ret.val[1]) = B_guess(N, s, b)
            /\ ret.val[2] >= 1
            /\ ~Raised(P(ret.val[2]))
            /\ ~LessThan(P(ret.val[2]), call.conf)
            /\ \A d \in 1..(ret.val[2] - 1) : ~Raised(P(d)) /\ LessThan(P(d), call.conf)

\* A valid search that returned a half-width above 1.
C1_Witness ==
    /\ Done("theta")
    /\ ThetaValid(call.a)
    /\ ret.exc = "none"
    /\ ret.val[2] > 1

\* C2: for every valid input and every confidence the search loop terminates:
\* a call of theta that has started eventually returns a pair.
C2_ThetaTerminates ==
    (pc = "call" /\ call.fn = "theta" /\ ThetaValid(call.a))
        ~> (pc = "done" /\ ret.exc = "none")

\* A valid search that returned after at least two passes through the loop.
C2_Witness ==
    /\ Done("theta")
    /\ ThetaValid(call.a)
    /\ ret.exc = "none"
    /\ delta >= 3
    /\ ret.val[2] = delta

\* The sum of the mass function over the B of lo .. hi.
RECURSIVE MassOver(_, _, _, _, _)
MassOver(N, lo, hi, s, b) ==
    IF hi < lo
    THEN 0
    ELSE MassOver(N, lo, hi - 1, s, b)
            + ways_to_get_specific_sample_from_specific_jar(N, hi, s, b).val

Max(x, y) == IF x >= y THEN x ELSE y
Min(x, y) == IF x <= y THEN x ELSE y

\* C3: for every valid (N, s, b) and all L <= U, in or out of [0, N], the
\* interval probability is defined, its numerator is the sum of the mass
\* function over max(L, 0) .. min(U, N) alone, and every B of L .. U outside
\* [0, N] contributes exactly 0.
C3_OutOfRangeJarsContributeZero ==
    (Done("interval") /\ ValidTriple(call.a[1], call.a[4], call.a[5])
        /\ call.a[2] <= call.a[3]) =>
        LET N == call.a[1]
            L == call.a[2]
            U == call.a[3]
            s == call.a[4]
            b == call.a[5]
        IN  /\ ret.exc = "none"
            /\ ret.num = MassOver(N, Max(L, 0), Min(U, N), s, b)
            /\ \A B \in L..U :
                   ~ValidJar(N, B) =>
                       ways_to_get_specific_sample_from_specific_jar(N, B, s, b) = Ret(0)

\* An interval reaching below 0 and above N whose probability was returned.
C3_Witness ==
    /\ Done("interval")
    /\ ValidTriple(call.a[1], call.a[4], call.a[5])
    /\ call.a[2] < 0
    /\ call.a[3] > call.a[1]
    /\ ret.exc = "none"
    /\ ret.num > 1

\* C4: for every pair (n, k), negative values included, with k > n or k < 0
\* or n < 0, choose(n, k) returns 0.
C4_ChooseZeroOutsideDomain ==
    (Done("choose") /\ (call.a[2] > call.a[1] \/ call.a[2] < 0 \/ call.a[1] < 0)) =>
        ret = Ret(0)

\* C5: for all n >= 0 and k >= 0, choose(n, k) is the binomial coefficient
\* math.comb(n, k): the exact quotient n! / ((n-k)! k!) when k <= n and 0 when
\* k > n; choose(n, 0) = 1 and choose(n, n) = 1.
C5_ChooseIsBinomial ==
    (Done("choose") /\ call.a[1] >= 0 /\ call.a[2] >= 0) =>
        LET n == call.a[1]
            k == call.a[2]
        IN  /\ ret = Ret(comb(n, k))
            /\ k <= n => ret.val * (Fact(n - k) * Fact(k)) = Fact(n)
            /\ k > n => ret.val = 0
            /\ k = 0 => ret.val = 1
            /\ k = n => ret.val = 1

\* A call of choose with 0 < k < n that returned a count above n.
C5_Witness ==
    /\ Done("choose")
    /\ 0 < call.a[2]
    /\ call.a[2] < call.a[1]
    /\ ret.exc = "none"
    /\ ret.val > call.a[1]

InvalidTriple(N, s, b) == N < 0 \/ s < 0 \/ s > N \/ b < 0 \/ b > s

\* C6: every call of the forward or reverse probability with an input outside
\* the domain (N < 0, s < 0, s > N, b < 0, b > s, B < 0 or B > N), and every
\* call of the interval probability, B_guess or theta with N < 0, s < 0,
\* s > N, b < 0 or b > s, ends in an error; none returns a value.
C6_InvalidDomainRejected ==
    /\ ((Done("forward") \/ Done("reverse"))
            /\ (InvalidTriple(call.a[1], call.a[3], call.a[4])
                    \/ ~ValidJar(call.a[1], call.a[2])))
        => Raised(ret)
    /\ (Done("interval") /\ InvalidTriple(call.a[1], call.a[4], call.a[5]))
        => Raised(ret)
    /\ ((Done("B_guess") \/ Done("theta"))
            /\ InvalidTriple(call.a[1], call.a[2], call.a[3]))
        => Raised(ret)

\* The sum of the numerators the forward probability returns for b = 0 .. last.
RECURSIVE ForwardNumerators(_, _, _, _)
ForwardNumerators(N, B, s, last) ==
    IF last < 0
    THEN 0
    ELSE ForwardNumerators(N, B, s, last - 1)
            + probability_of_getting_specific_sample_from_specific_jar(N, B, s, last).num

\* The sum of the numerators the reverse probability returns for B = 0 .. last.
RECURSIVE ReverseNumerators(_, _, _, _)
ReverseNumerators(N, last, s, b) ==
    IF last < 0
    THEN 0
    ELSE ReverseNumerators(N, last - 1, s, b)
            + probability_that_specific_sample_came_from_specific_jar(N, last, s, b).num

\* C7: over the full support the probabilities sum to exactly 1, on exact
\* counts: the numerators of the forward probability over b = 0 .. s add up
\* to its denominator, those of the reverse probability over B = 0 .. N add
\* up to its denominator, and the interval probability of [0, N] has its
\* numerator equal to its denominator.
C7_FullSupportSumsToOne ==
    /\ (Done("forward_denominator") /\ ValidJar(call.a[1], call.a[2])
            /\ 0 <= call.a[3] /\ call.a[3] <= call.a[1]) =>
        /\ ret.exc = "none"
        /\ ForwardNumerators(call.a[1], call.a[2], call.a[3], call.a[3]) = ret.val
        /\ \A b \in 0..call.a[3] :
               probability_of_getting_specific_sample_from_specific_jar(
                   call.a[1], call.a[2], call.a[3], b).den = ret.val
    /\ (Done("reverse_denominator") /\ ValidTriple(call.a[1], call.a[2], call.a[3])) =>
        /\ ret.exc = "none"
        /\ ReverseNumerators(call.a[1], call.a[1], call.a[2], call.a[3]) = ret.val
        /\ \A B \in 0..call.a[1] :
               probability_that_specific_sample_came_from_specific_jar(
                   call.a[1], B, call.a[2], call.a[3]).den = ret.val
    /\ (Done("interval") /\ ValidTriple(call.a[1], call.a[4], call.a[5])
            /\ call.a[2] = 0 /\ call.a[3] = call.a[1]) =>
        /\ ret.exc = "none"
        /\ ret.den > 0
        /\ ret.num = ret.den

\* The interval probability of [0, N] returned for a jar of at least 2.
C7_Witness ==
    /\ Done("interval")
    /\ ValidTriple(call.a[1], call.a[4], call.a[5])
    /\ call.a[1] >= 2
    /\ call.a[2] = 0
    /\ call.a[3] = call.a[1]
    /\ ret.exc = "none"
    /\ ret.num = ret.den
    /\ ret.den > 2

\* C8: for all valid (N, B, s) the forward denominator, summed explicitly over
\* b = 0 .. s, equals choose(N, s).
C8_ForwardDenominatorIsChoose ==
    (Done("forward_denominator") /\ ValidJar(call.a[1], call.a[2])
        /\ 0 <= call.a[3] /\ call.a[3] <= call.a[1]) =>
        /\ ret.exc = "none"
        /\ ret = choose(call.a[1], call.a[3])

\* A forward denominator with B and s strictly inside 0 .. N.
C8_Witness ==
    /\ Done("forward_denominator")
    /\ 0 < call.a[2]
    /\ call.a[2] < call.a[1]
    /\ 0 < call.a[3]
    /\ call.a[3] < call.a[1]
    /\ ret.exc = "none"
    /\ ret.val >= 6

\* C9: for every valid (N, s, b), every center B* and every half-width D >= 0
\* the probability of [B* - (D+1), B* + (D+1)] is at least that of
\* [B* - D, B* + D]; in theta's loop the next value of p is at least p.
C9_WiderIntervalNeverLessProbable ==
    /\ (Done("interval") /\ ValidTriple(call.a[1], call.a[4], call.a[5])
            /\ call.a[2] <= call.a[3] /\ (call.a[3] - call.a[2]) % 2 = 0) =>
        LET wider == probability_that_specific_sample_came_from_interval_of_jars(
                         call.a[1], call.a[2] - 1, call.a[3] + 1, call.a[4], call.a[5])
        IN  /\ ret.exc = "none"
            /\ wider.exc = "none"
            /\ AtLeast(wider, ret)
    /\ (pc = "loop" /\ ThetaValid(call.a)) =>
        LET next == theta_p(call.a[1], call.a[2], call.a[3], Bg, theta_next_delta(delta))
        IN  /\ next.exc = "none"
            /\ AtLeast(next, p)

\* An interval B* - D .. B* + D of probability strictly between 0 and 1 that
\* gains probability when widened by one on each side.
C9_Witness ==
    /\ Done("interval")
    /\ ValidTriple(call.a[1], call.a[4], call.a[5])
    /\ call.a[2] <= call.a[3]
    /\ (call.a[3] - call.a[2]) % 2 = 0
    /\ ret.exc = "none"
    /\ 0 < ret.num
    /\ ret.num < ret.den
    /\ ~AtLeast(ret, probability_that_specific_sample_came_from_interval_of_jars(
                         call.a[1], call.a[2] - 1, call.a[3] + 1, call.a[4], call.a[5]))

\* C10: for all inputs in the domain (0 <= s <= N, 0 <= B <= N, 0 <= b <= s)
\* the forward and the reverse denominator are strictly positive, and no
\* division by zero occurs in the forward, reverse or interval probability.
C10_DenominatorsPositive ==
    /\ (Done("forward_denominator") /\ ValidJar(call.a[1], call.a[2])
            /\ 0 <= call.a[3] /\ call.a[3] <= call.a[1]) =>
        (ret.exc = "none" /\ ret.val > 0)
    /\ (Done("reverse_denominator") /\ ValidTriple(call.a[1], call.a[2], call.a[3])) =>
        (ret.exc = "none" /\ ret.val > 0)
    /\ ((Done("forward") \/ Done("reverse"))
            /\ ValidTriple(call.a[1], call.a[3], call.a[4])
            /\ ValidJar(call.a[1], call.a[2])) =>
        (ret.exc = "none" /\ ret.den > 0)
    /\ (Done("interval") /\ ValidTriple(call.a[1], call.a[4], call.a[5])) =>
        (ret.exc = "none" /\ ret.den > 0)

\* A reverse probability strictly between 0 and 1 returned for a valid input.
C10_Witness ==
    /\ Done("reverse")
    /\ ValidTriple(call.a[1], call.a[3], call.a[4])
    /\ ValidJar(call.a[1], call.a[2])
    /\ ret.exc = "none"
    /\ 0 < ret.num
    /\ ret.num < ret.den

\* C11: every probability returned lies in [0, 1]: for all valid inputs the
\* forward, the reverse and the interval probability (for any bounds L <= U,
\* in or out of [0, N]) return a ratio with 0 <= numerator <= denominator.
C11_ProbabilitiesInUnitInterval ==
    /\ ((Done("forward") \/ Done("reverse"))
            /\ ValidTriple(call.a[1], call.a[3], call.a[4])
            /\ ValidJar(call.a[1], call.a[2])) =>
        (ret.exc = "none" /\ 0 <= ret.num /\ ret.num <= ret.den)
    /\ (Done("interval") /\ ValidTriple(call.a[1], call.a[4], call.a[5])
            /\ call.a[2] <= call.a[3]) =>
        (ret.exc = "none" /\ 0 <= ret.num /\ ret.num <= ret.den)

\* A forward probability strictly between 0 and 1 returned for a valid input.
C11_Witness ==
    /\ Done("forward")
    /\ ValidTriple(call.a[1], call.a[3], call.a[4])
    /\ ValidJar(call.a[1], call.a[2])
    /\ ret.exc = "none"
    /\ 0 < ret.num
    /\ ret.num < ret.den

\* C12: for all N, s, b with 1 <= s <= N and 0 <= b <= s, B_guess returns
\* exactly floor(b * N / s), the integer quotient of the exact product b * N
\* by s.
C12_BGuessIsExactFloor ==
    (Done("B_guess") /\ 1 <= call.a[2]
        /\ ValidTriple(call.a[1], call.a[2], call.a[3])) =>
        ret = Ret((call.a[3] * call.a[1]) \div call.a[2])

\* b blues cannot be drawn from B, or s - b reds from N - B.
Infeasible(N, B, s, b) == b > B \/ s - b > N - B

\* C13: for all domain-valid (N, B, s, b) the count of ways is
\* choose(B, b) * choose(N - B, s - b), the product of the two binomial
\* coefficients, and it is 0 whenever b > B or s - b > N - B; for such
\* infeasible but domain-valid inputs the forward and the reverse probability
\* return probability 0 and raise no error.
C13_InfeasibleIsZeroNotError ==
    /\ (Done("ways") /\ ValidTriple(call.a[1], call.a[3], call.a[4])
            /\ ValidJar(call.a[1], call.a[2])) =>
        LET N == call.a[1]
            B == call.a[2]
            s == call.a[3]
            b == call.a[4]
        IN  /\ ret = Ret(comb(B, b) * comb(N - B, s - b))
            /\ Infeasible(N, B, s, b) => ret = Ret(0)
    /\ ((Done("forward") \/ Done("reverse"))
            /\ ValidTriple(call.a[1], call.a[3], call.a[4])
            /\ ValidJar(call.a[1], call.a[2])
            /\ Infeasible(call.a[1], call.a[2], call.a[3], call.a[4])) =>
        (ret.exc = "none" /\ ret.num = 0 /\ ret.den > 0)

\* A reverse probability of 0 returned for a domain-valid sample that needs
\* more reds than the jar holds.
C13_Witness ==
    /\ Done("reverse")
    /\ ValidTriple(call.a[1], call.a[3], call.a[4])
    /\ ValidJar(call.a[1], call.a[2])
    /\ call.a[4] <= call.a[2]
    /\ call.a[3] - call.a[4] > call.a[1] - call.a[2]
    /\ ret.exc = "none"
    /\ ret.num = 0
    /\ ret.den > 1

\* An outcome that is an exception.
Errored(r) == r.exc \notin {"none", "pending"}

\* C14: if an evaluation of B_guess or of the interval probability made by
\* theta ends in an error, the search ends in that error at that step: the
\* call is over with that exception as its outcome, delta is the half-width of
\* the evaluation that failed (0 when B_guess failed, p never assigned) and no
\* pair is returned.
C14_ThetaPropagatesErrors ==
    (call.fn = "theta") =>
        LET g == B_guess(call.a[1], call.a[2], call.a[3])
        IN  /\ (pc # "call" /\ Errored(g)) =>
                /\ pc = "done"
                /\ ret = g
                /\ delta = 0
                /\ p = NoP
            /\ Errored(p) =>
                /\ pc = "done"
                /\ ret = Raise(p.exc)
                /\ delta >= theta_first_delta
                /\ p = theta_p(call.a[1], call.a[2], call.a[3], Bg, delta)
            /\ (pc = "done" /\ ~Errored(g) /\ ~Errored(p)) =>
                ret = Ret(<<Bg, delta>>)

\* A search ended by the exception of its first interval probability.
C14_Witness ==
    /\ Done("theta")
    /\ Errored(p)
    /\ delta = theta_first_delta
    /\ ret = Raise(p.exc)

\* The pair theta returns for call c when it runs alone: the search from
\* theta_first_delta on, one delta after the other.
RECURSIVE SoloSearch(_, _, _)
SoloSearch(c, center, d) ==
    IF d < MaxDelta /\ LessThan(theta_p(c.a[1], c.a[2], c.a[3], center, d), c.conf)
    THEN SoloSearch(c, center, theta_next_delta(d))
    ELSE <<center, d>>

SoloTheta(c) ==
    SoloSearch(c, B_guess(c.a[1], c.a[2], c.a[3]).val, theta_first_delta)

\* C15: when two searches run concurrently with their steps interleaved in
\* any order, each returns the pair it returns when run alone: Bg, delta, p
\* and the tally of a search are local to its call, and no step of one search
\* changes them in the other.
C15_ConcurrentSearchesAgreeWithSolo ==
    \A i \in Procs :
        procs[i].pc = "done" => procs[i].ret = Ret(SoloTheta(procs[i].call))

\* Two different searches, the first returned after a second pass through the
\* loop while the second is inside the tally of its own second pass.
C15_Witness ==
    /\ procs[1].pc = "done"
    /\ procs[1].ret.exc = "none"
    /\ procs[1].ret.val[2] >= 2
    /\ procs[2].pc = "tally"
    /\ procs[2].delta >= 2
    /\ procs[2].tally.val > 0
    /\ procs[2].call # procs[1].call

\* C16: the search never evaluates half-width 0: in a valid call the first
\* interval evaluated is Bg - 1 .. Bg + 1, every p assigned is the probability
\* of Bg - delta .. Bg + delta with delta >= 1, and when the zero-width
\* interval Bg .. Bg already has probability >= confidence theta returns
\* half-width 1, not 0.
C16_SearchStartsAtHalfWidthOne ==
    [][(call.fn = "theta" /\ ThetaValid(call.a)) =>
          LET N == call.a[1]
              s == call.a[2]
              b == call.a[3]
              P(lo, hi) == probability_that_specific_sample_came_from_interval_of_jars(
                               N, lo, hi, s, b)
          IN  /\ (p = NoP /\ p' # NoP) =>
                     (delta' = 1 /\ p' = P(Bg' - 1, Bg' + 1))
              /\ (delta' # delta) =>
                     (delta' >= 1 /\ p' = P(Bg' - delta', Bg' + delta'))
              /\ (pc' = "done" /\ ~LessThan(P(Bg', Bg'), call.conf)) =>
                     ret' = Ret(<<Bg', 1>>)]_vars

\* A valid search whose point estimate alone has probability >= confidence,
\* returned with half-width 1.
C16_Witness ==
    /\ Done("theta")
    /\ ThetaValid(call.a)
    /\ ~LessThan(probability_that_specific_sample_came_from_interval_of_jars(
                     call.a[1], Bg, Bg, call.a[2], call.a[3]), call.conf)
    /\ call.conf = <<19, 20>>
    /\ ret = Ret(<<Bg, 1>>)

\* p for the interval center - d .. center + d of call c, from a denominator
\* den computed beforehand.
CachedP(c, center, d, den) ==
    TrueDiv(ways_to_get_specific_sample_from_interval_of_jars(
                c.a[1], center - d, center + d, c.a[2], c.a[3]),
            den)

\* The search that reuses the denominator den at every half-width.
RECURSIVE CachedSearch(_, _, _, _)
CachedSearch(c, center, d, den) ==
    IF d < MaxDelta /\ LessThan(CachedP(c, center, d, den), c.conf)
    THEN CachedSearch(c, center, d + 1, den)
    ELSE <<center, d>>

\* C17: the denominator theta recomputes at every delta depends on (N, s, b)
\* alone and has the same value at every step of a search; a search that
\* computes it once and reuses it has the same p at every delta, so it visits
\* the same deltas, and it returns the same pair, for every valid input.
C17_DenominatorCacheable ==
    (call.fn = "theta" /\ ThetaValid(call.a)) =>
        LET den == ways_to_get_specific_sample_from_all_jars_of_given_size(
                       call.a[1], call.a[2], call.a[3])
        IN  /\ pc = "loop" =>
                /\ p.den = den.val
                /\ p = CachedP(call, Bg, delta, den)
            /\ pc = "done" => ret = Ret(CachedSearch(call, Bg, 1, den))

\* A valid search inside its loop, about to compute the denominator a third
\* time.
C17_Witness ==
    /\ call.fn = "theta"
    /\ ThetaValid(call.a)
    /\ pc = "loop"
    /\ delta = 2
    /\ p.den > 1
    /\ LessThan(p, call.conf)

\* C18: for every valid input (1 <= s <= N, 0 <= b <= s, 0 < confidence < 1)
\* the center Bg satisfies 0 <= Bg <= N, delta never exceeds max(Bg, N - Bg)
\* in any state of the loop, and the half-width returned satisfies
\* 1 <= D <= max(Bg, N - Bg), the first half-width at which
\* Bg - delta .. Bg + delta covers 0 .. N.
C18_SearchBoundedByFullCover ==
    (call.fn = "theta" /\ ThetaValid(call.a)
        /\ 0 < call.conf[1] /\ call.conf[1] < call.conf[2]) =>
        LET N == call.a[1]
        IN  /\ pc \in {"guessed", "loop", "done"} => (0 <= Bg /\ Bg <= N)
            /\ pc = "loop" => (1 <= delta /\ delta <= Max(Bg, N - Bg))
            /\ pc = "done" =>
                /\ ret.exc = "none"
                /\ ret.val[1] = Bg
                /\ 1 <= ret.val[2]
                /\ ret.val[2] <= Max(Bg, N - Bg)

\* A valid search that returned after three half-widths or more, before its
\* interval covered 0 .. N.
C18_Witness ==
    /\ Done("theta")
    /\ ThetaValid(call.a)
    /\ ret.exc = "none"
    /\ ret.val[1] = Bg
    /\ ret.val[2] >= 3
    /\ ret.val[2] < Max(Bg, call.a[1] - Bg)

====
